---- MODULE Spec2Model ----
(***************************************************************************)
(* A model of vtkreader.py: the raw-segment patcher VTKXMLParser.feed and  *)
(* the semantic decoder VTKTreeBuilder.                                    *)
(*                                                                         *)
(* The source is Python 2: a str is a sequence of bytes.  Text is modelled *)
(* as a sequence of byte values 0..255, so the regular expressions, base64 *)
(* and struct are computed on the bytes the program sees.                  *)
(***************************************************************************)
EXTENDS Integers, Sequences, FiniteSets, TLC

(***************************************************************************)
(* Bounds of the model                                                     *)
(***************************************************************************)
\* longest raw payload of a generated document
MaxPayload == 2
\* most feed calls of one parse
MaxChunks == 3

(***************************************************************************)
(* Characters                                                              *)
(***************************************************************************)
\* The byte value of the characters the literals below are written with.
Ord(c) ==
    CASE c = "<" -> 60 [] c = ">" -> 62 [] c = "/" -> 47 [] c = "=" -> 61
      [] c = "_" -> 95 [] c = " " -> 32 [] c = "\"" -> 34
      [] c = "A" -> 65 [] c = "D" -> 68
      [] c = "a" -> 97 [] c = "c" -> 99 [] c = "d" -> 100 [] c = "e" -> 101
      [] c = "g" -> 103 [] c = "i" -> 105 [] c = "n" -> 110 [] c = "o" -> 111
      [] c = "p" -> 112 [] c = "r" -> 114 [] c = "t" -> 116 [] c = "w" -> 119
      [] c = "x" -> 120 [] c = "\n" -> 10

Str(t) == [i \in 1..Len(t) |-> Ord(t[i])]

\* what \s matches in a Python 2 str pattern: [ \t\n\r\f\v]
IsSpace(c) == c \in {32, 9, 10, 13, 12, 11}

\* what . matches without re.DOTALL: anything but the line feed
IsDot(c) == c # 10

Min(S) == CHOOSE x \in S : \A y \in S : x <= y
Max(S) == CHOOSE x \in S : \A y \in S : x >= y

(***************************************************************************)
(* base64.b64encode                                                        *)
(***************************************************************************)
\* the character of the 6-bit value v in the standard alphabet A-Za-z0-9+/
B64Char(v) ==
    IF v < 26 THEN 65 + v
    ELSE IF v < 52 THEN 97 + (v - 26)
    ELSE IF v < 62 THEN 48 + (v - 52)
    ELSE IF v = 62 THEN 43 ELSE 47

RECURSIVE b64encode(_)
b64encode(s) ==
    IF Len(s) = 0 THEN <<>>
    ELSE IF Len(s) = 1 THEN
        << B64Char(s[1] \div 4), B64Char((s[1] % 4) * 16), 61, 61 >>
    ELSE IF Len(s) = 2 THEN
        << B64Char(s[1] \div 4),
           B64Char((s[1] % 4) * 16 + s[2] \div 16),
           B64Char((s[2] % 16) * 4), 61 >>
    ELSE
        << B64Char(s[1] \div 4),
           B64Char((s[1] % 4) * 16 + s[2] \div 16),
           B64Char((s[2] % 16) * 4 + s[3] \div 64),
           B64Char(s[3] % 64) >> \o b64encode(SubSeq(s, 4, Len(s)))

(***************************************************************************)
(* VTKXMLParser: the three patterns                                        *)
(***************************************************************************)
\* <AppendedData encoding="raw">
raw_start_tag ==
    Str(<< "<", "A", "p", "p", "e", "n", "d", "e", "d", "D", "a", "t", "a",
           " ", "e", "n", "c", "o", "d", "i", "n", "g", "=", "\"", "r", "a",
           "w", "\"", ">" >>)

\* raw_start_pattern: <AppendedData encoding="raw">_
raw_start_pattern == raw_start_tag \o Str(<< "_" >>)

\* raw_end_pattern: </AppendedData>
raw_end_pattern ==
    Str(<< "<", "/", "A", "p", "p", "e", "n", "d", "e", "d", "D", "a", "t",
           "a", ">" >>)

\* pattern.search(s) for a literal pattern
Search(pat, s) ==
    \E i \in 1..(Len(s) - Len(pat) + 1) : SubSeq(s, i, i + Len(pat) - 1) = pat

\* the literal pat stands at position i of s
LitAt(pat, s, i) ==
    /\ i >= 1
    /\ i + Len(pat) - 1 <= Len(s)
    /\ SubSeq(s, i, i + Len(pat) - 1) = pat

\* where a greedy \s* that starts at k stops: the first position that holds
\* no white space
SkipSpace(s, k) ==
    Min({x \in k..(Len(s) + 1) : x = Len(s) + 1 \/ ~IsSpace(s[x])})

\* raw_sub_pattern = (?<=<AppendedData encoding="raw">)\s*_(.*)\s*(?=</AppendedData>)
\* tried at position i of s.  The ends k of group 1 that let the rest match:
\* the look-behind holds at i, the white space run from i is followed by the
\* underscore at j, (.*) takes s[j+1..k-1] without a line feed, and the white
\* space run from k is followed by the end tag.
SubGroupEnds(s, i) ==
    IF ~LitAt(raw_start_tag, s, i - Len(raw_start_tag)) THEN {}
    ELSE LET j == SkipSpace(s, i) IN
         IF j > Len(s) \/ s[j] # 95 THEN {}
         ELSE {k \in (j + 1)..(Len(s) + 1) :
                  /\ \A x \in (j + 1)..(k - 1) : IsDot(s[x])
                  /\ LitAt(raw_end_pattern, s, SkipSpace(s, k))}

\* the positions of s at or after from where raw_sub_pattern matches
SubMatchStarts(s, from) ==
    {i \in from..(Len(s) + 1) : SubGroupEnds(s, i) # {}}

\* raw_sub_pattern.search(s)
SubSearch(s) == SubMatchStarts(s, 1) # {}

\* raw_sub_pattern.sub(lambda x: base64.b64encode(x.group(1)), s), from
\* position from on: the leftmost match, (.*) greedy, is replaced as a whole
\* by the encoding of its group 1, and the scan goes on after the match.
RECURSIVE SubFrom(_, _)
SubFrom(s, from) ==
    LET starts == SubMatchStarts(s, from) IN
    IF starts = {} THEN SubSeq(s, from, Len(s))
    ELSE LET i == Min(starts)
             j == SkipSpace(s, i)
             k == Max(SubGroupEnds(s, i))
             m == SkipSpace(s, k)
         IN SubSeq(s, from, i - 1)
              \o b64encode(SubSeq(s, j + 1, k - 1))
              \o SubFrom(s, m)

\* raw_sub with the underscore left in place (the replacement starts after it)
RECURSIVE SubFromKeep(_, _)
SubFromKeep(s, from) ==
    LET starts == SubMatchStarts(s, from) IN
    IF starts = {} THEN SubSeq(s, from, Len(s))
    ELSE LET i == Min(starts)
             j == SkipSpace(s, i)
             k == Max(SubGroupEnds(s, i))
             m == SkipSpace(s, k)
         IN SubSeq(s, from, j)
              \o b64encode(SubSeq(s, j + 1, k - 1))
              \o SubFromKeep(s, m)

raw_sub_keep_underscore(s) == SubFromKeep(s, 1)

raw_sub(s) == SubFrom(s, 1)

(***************************************************************************)
(* base64.b64decode (Python 2: binascii.a2b_base64)                        *)
(***************************************************************************)
\* the 6-bit value of a character of the alphabet, -1 for any other
B64Val(c) ==
    IF c >= 65 /\ c <= 90 THEN c - 65
    ELSE IF c >= 97 /\ c <= 122 THEN c - 97 + 26
    ELSE IF c >= 48 /\ c <= 57 THEN c - 48 + 52
    ELSE IF c = 43 THEN 62
    ELSE IF c = 47 THEN 63 ELSE -1

\* binascii_find_valid(s, 1) at the pad at position i: the next character
\* after it that is a base64 character or a pad, -1 when there is none
NextValid(s, i) ==
    LET later == {x \in (i + 1)..Len(s) : s[x] = 61 \/ B64Val(s[x]) >= 0} IN
    IF later = {} THEN -1 ELSE s[Min(later)]

\* the loop of a2b_base64 from position i on: quad is quad_pos, bits is
\* leftbits and left is leftchar.  Characters outside the alphabet are
\* skipped, a pad sequence ends the input, and bits left over at the end are
\* binascii.Error("Incorrect padding"), which b64decode raises as TypeError.
RECURSIVE A2B(_, _, _, _, _)
A2B(s, i, quad, bits, left) ==
    IF i > Len(s) THEN
        IF bits # 0 THEN [err |-> "TypeError", val |-> <<>>]
        ELSE [err |-> "none", val |-> <<>>]
    ELSE IF s[i] = 61 THEN
        IF quad < 2 \/ (quad = 2 /\ NextValid(s, i) # 61)
        THEN A2B(s, i + 1, quad, bits, left)
        ELSE [err |-> "none", val |-> <<>>]
    ELSE IF B64Val(s[i]) < 0 THEN A2B(s, i + 1, quad, bits, left)
    ELSE LET q == (quad + 1) % 4
             l == left * 64 + B64Val(s[i])
             b == bits + 6
         IN IF b >= 8
            THEN LET rest == A2B(s, i + 1, q, b - 8, l % (2 ^ (b - 8))) IN
                 [err |-> rest.err,
                  val |-> << (l \div (2 ^ (b - 8))) % 256 >> \o rest.val]
            ELSE A2B(s, i + 1, q, b, l)

b64decode(s) == A2B(s, 1, 0, 0, 0)

(***************************************************************************)
(* struct and numpy                                                        *)
(*                                                                         *)
(* A number is modelled by its numeral: the bytes of its binary            *)
(* representation (two's complement for the integer kinds, IEEE 754 for    *)
(* the float kinds), most significant byte first.  Two numbers of one kind *)
(* are equal exactly when their numerals are.                              *)
(***************************************************************************)
\* VTKTreeBuilder.buffers
buffers ==
    [Int8 |-> "b", UInt8 |-> "B", Int16 |-> "h", UInt16 |-> "H",
     Int32 |-> "i", UInt32 |-> "I", Int64 |-> "q", UInt64 |-> "Q",
     Float32 |-> "f", Float64 |-> "d"]

\* VTKTreeBuilder.byteorders
byteorders == [LittleEndian |-> "<", BigEndian |-> ">"]

\* struct.calcsize of one item; the native and the standard size agree for
\* the ten codes of buffers
calcsize(code) ==
    CASE code \in {"b", "B"} -> 1
      [] code \in {"h", "H"} -> 2
      [] code \in {"i", "I", "f"} -> 4
      [] code \in {"q", "Q", "d"} -> 8

Reverse(s) == [i \in 1..Len(s) |-> s[Len(s) + 1 - i]]

\* the bytes of a number in byte order bo, and the number of such bytes
ToBytes(bo, numeral) == IF bo = ">" THEN numeral ELSE Reverse(numeral)

FromBytes(bo, bytes) == IF bo = ">" THEN bytes ELSE Reverse(bytes)

\* the value of a numeral read as an unsigned integer
RECURSIVE NumValue(_)
NumValue(numeral) ==
    IF Len(numeral) = 0 THEN 0
    ELSE NumValue(SubSeq(numeral, 1, Len(numeral) - 1)) * 256
            + numeral[Len(numeral)]

\* the numeral of the natural number n in size bytes
RECURSIVE NumeralOf(_, _)
NumeralOf(n, size) ==
    IF size = 0 THEN <<>>
    ELSE Append(NumeralOf(n \div 256, size - 1), n % 256)

\* struct.pack(bo + code, 0)
pack_zero(bo, code) == ToBytes(bo, NumeralOf(0, calcsize(code)))

\* struct.unpack_from(bo + code, buffer, offset)[0] for an integer code whose
\* value is not negative: struct.error when the buffer is too short
unpack_from(bo, code, buffer, offset) ==
    IF Len(buffer) - offset < calcsize(code)
    THEN [err |-> "struct.error", val |-> 0]
    ELSE [err |-> "none",
          val |-> NumValue(FromBytes(bo,
                     SubSeq(buffer, offset + 1, offset + calcsize(code))))]

\* np.fromstring(string, dtype=bo + code, count=count): count items of
\* calcsize(code) bytes each from the start of string, all of it when count
\* is negative; ValueError when the string is too short or no whole number
\* of items
fromstring(string, bo, code, count) ==
    LET size == calcsize(code)
        n == IF count < 0 THEN Len(string) \div size ELSE count
    IN IF (count < 0 /\ Len(string) % size # 0) \/ Len(string) < n * size
       THEN [err |-> "ValueError", val |-> <<>>]
       ELSE [err |-> "none",
             val |-> [i \in 1..n |->
                        FromBytes(bo, SubSeq(string, (i - 1) * size + 1, i * size))]]

IsDigit(c) == c >= 48 /\ c <= 57

\* the end of the run of digits that starts at i
DigitsEnd(s, i) ==
    Min({x \in i..(Len(s) + 1) : x = Len(s) + 1 \/ ~IsDigit(s[x])})

\* the value of a run of decimal digits
RECURSIVE DecValue(_)
DecValue(ds) ==
    IF Len(ds) = 0 THEN 0
    ELSE DecValue(SubSeq(ds, 1, Len(ds) - 1)) * 10 + (ds[Len(ds)] - 48)

\* np.fromstring(string, dtype=code, sep=' ') for an integer kind: the
\* numbers written in decimal digits and separated by white space; the scan
\* stops at the first text that is no number
RECURSIVE fromstring_sep(_, _, _)
fromstring_sep(string, code, i) ==
    LET j == SkipSpace(string, i)
        e == DigitsEnd(string, j)
    IN IF e = j THEN <<>>
       ELSE << NumeralOf(DecValue(SubSeq(string, j, e - 1)), calcsize(code)) >>
               \o fromstring_sep(string, code, e)

\* int(s) for the text of an attribute
int(s) ==
    IF Len(s) > 0 /\ DigitsEnd(s, 1) = Len(s) + 1
    THEN [err |-> "none", val |-> DecValue(s)]
    ELSE [err |-> "ValueError", val |-> 0]

\* str.strip()
strip(s) ==
    LET a == SkipSpace(s, 1)
        keep == {x \in a..Len(s) : ~IsSpace(s[x])}
    IN IF keep = {} THEN <<>> ELSE SubSeq(s, a, Max(keep))

\* a reshape that drops the items left over after the last full row
reshape_dropping_remainder(flat, ncomp) ==
    [err |-> "none",
     val |-> [r \in 1..(Len(flat) \div ncomp) |->
                [c \in 1..ncomp |-> flat[(r - 1) * ncomp + c]]]]

\* array.reshape(-1, ncomp): the rows of ncomp items, in row-major order;
\* ValueError when the size is no multiple of ncomp
reshape(flat, ncomp) ==
    IF Len(flat) % ncomp # 0 THEN [err |-> "ValueError", val |-> <<>>]
    ELSE [err |-> "none",
          val |-> [r \in 1..(Len(flat) \div ncomp) |->
                     [c \in 1..ncomp |-> flat[(r - 1) * ncomp + c]]]]

(***************************************************************************)
(* The documents fed to the parser                                         *)
(***************************************************************************)
\* payload bytes: a byte no XML text may hold, and the line feed
PayloadBytes == {1, 10}

RECURSIVE SeqsUpTo(_, _)
SeqsUpTo(S, n) ==
    IF n = 0 THEN {<<>>}
    ELSE LET shorter == SeqsUpTo(S, n - 1) IN
         shorter \cup {Append(s, b) : s \in {t \in shorter : Len(t) = n - 1}, b \in S}

Payloads == SeqsUpTo(PayloadBytes, MaxPayload)

\* text before and after the section
Pre == Str(<< "x" >>)
Post == Str(<< "x" >>)

\* a document with one raw section: ws is the white space before the underscore
RawDoc(ws, payload) ==
    Pre \o raw_start_tag \o ws \o Str(<< "_" >>) \o payload
        \o raw_end_pattern \o Post

\* a document without a raw section
PlainDoc == Pre \o Str(<< "<", "A", ">" >>) \o raw_end_pattern \o Post

Docs ==
    {RawDoc(<<>>, p) : p \in Payloads}
        \cup {RawDoc(Str(<< "\n" >>), <<1>>), PlainDoc}

(***************************************************************************)
(* The documents handed to the decoder, as the events the XML parser makes *)
(* of them                                                                 *)
(***************************************************************************)
\* the longest array of a generated document
MaxLen == 2

Start(tag, attrib) == [ev |-> "start", tag |-> tag, attrib |-> attrib, text |-> <<>>]
Text(text) == [ev |-> "data", tag |-> "", attrib |-> [none |-> ""], text |-> text]
End(tag) == [ev |-> "end", tag |-> tag, attrib |-> [none |-> ""], text |-> <<>>]

\* the attributes of the VTKFile tag; ht = "" leaves header_type out
FileAttrib(version, byte_order, ht) ==
    IF ht = ""
    THEN [type |-> "UnstructuredGrid", version |-> version, byte_order |-> byte_order]
    ELSE [type |-> "UnstructuredGrid", version |-> version, byte_order |-> byte_order,
          header_type |-> ht]

Versions == {"0.1", "1.0"}
ByteOrderNames == {"LittleEndian", "BigEndian"}
HeaderTypeNames == {"", "UInt8", "UInt16", "UInt64"}

FileAttribs ==
    {FileAttrib(v, b, h) : v \in Versions, b \in ByteOrderNames, h \in HeaderTypeNames}

\* the struct code of the header a VTKFile tag declares (UInt32 by default)
HeaderCode(fa) ==
    IF "header_type" \in DOMAIN fa THEN buffers[fa.header_type] ELSE "I"

\* the decimal digits of n
RECURSIVE DecText(_)
DecText(n) == IF n < 10 THEN << 48 + n >> ELSE Append(DecText(n \div 10), 48 + (n % 10))

\* the attributes of a DataArray tag; nc = 0 leaves NumberOfComponents out
ArrayAttrib(kind, format, nc) ==
    IF nc = 0 THEN [type |-> kind, format |-> format]
    ELSE [type |-> kind, format |-> format, NumberOfComponents |-> DecText(nc)]

AppendedAttrib(kind, offset, nc) ==
    IF nc = 0 THEN [type |-> kind, format |-> "appended", offset |-> DecText(offset)]
    ELSE [type |-> kind, format |-> "appended", offset |-> DecText(offset),
          NumberOfComponents |-> DecText(nc)]

\* the numeric kinds of the generated arrays, and two numbers of each kind
DocKinds == {"UInt8", "Int16", "Float32"}

Numbers(kind) ==
    LET size == calcsize(buffers[kind]) IN
    {[i \in 1..size |-> i], [i \in 1..size |-> IF i = 1 THEN 200 ELSE 0]}

Arrays(kind) == SeqsUpTo(Numbers(kind), MaxLen)

\* rawBytes(A): the items of A in byte order bo, one after the other
RECURSIVE RawBytes(_, _)
RawBytes(bo, A) ==
    IF Len(A) = 0 THEN <<>> ELSE ToBytes(bo, A[1]) \o RawBytes(bo, SubSeq(A, 2, Len(A)))

\* lengthHeader(n): the byte count n as a header of the document
LengthHeader(bo, hcode, n) == ToBytes(bo, NumeralOf(n, calcsize(hcode)))

\* header and content of a binary array
Block(bo, hcode, A) ==
    LengthHeader(bo, hcode, Len(RawBytes(bo, A))) \o RawBytes(bo, A)

\* the text of a binary DataArray: header and content encoded together
CombinedText(bo, hcode, A) == b64encode(Block(bo, hcode, A))

\* the text of a binary DataArray: header and content encoded one by one
SplitText(bo, hcode, A) ==
    b64encode(LengthHeader(bo, hcode, Len(RawBytes(bo, A))))
        \o b64encode(RawBytes(bo, A))

BinaryText(fa, A) ==
    IF fa.version = "0.1"
    THEN SplitText(byteorders[fa.byte_order], HeaderCode(fa), A)
    ELSE CombinedText(byteorders[fa.byte_order], HeaderCode(fa), A)

\* the text of an ascii DataArray of one-byte numbers
RECURSIVE AsciiText(_)
AsciiText(A) ==
    IF Len(A) = 0 THEN <<>>
    ELSE DecText(NumValue(A[1])) \o << 32 >> \o AsciiText(SubSeq(A, 2, Len(A)))

NL == << 10 >>

\* a document with one binary DataArray
BinaryDoc(fa, kind, nc, A) ==
    << Start("VTKFile", fa),
       Start("DataArray", ArrayAttrib(kind, "binary", nc)),
       Text(NL \o BinaryText(fa, A) \o NL),
       End("DataArray"),
       End("VTKFile") >>

\* a document with one ascii DataArray
AsciiDoc(fa, kind, nc, A) ==
    << Start("VTKFile", fa),
       Start("DataArray", ArrayAttrib(kind, "ascii", nc)),
       Text(NL \o AsciiText(A) \o NL),
       End("DataArray"),
       End("VTKFile") >>

\* a document with two appended DataArrays, the blob holding A1 and A2 back
\* to back, each after its length header
AppendedDoc(fa, k1, nc1, A1, k2, A2) ==
    LET bo == byteorders[fa.byte_order]
        b1 == Block(bo, HeaderCode(fa), A1)
        b2 == Block(bo, HeaderCode(fa), A2)
    IN << Start("VTKFile", fa),
          Start("DataArray", AppendedAttrib(k1, 0, nc1)),
          End("DataArray"),
          Start("DataArray", AppendedAttrib(k2, Len(b1), 0)),
          End("DataArray"),
          Start("AppendedData", [encoding |-> "raw"]),
          Text(b64encode(b1 \o b2)),
          End("AppendedData"),
          End("VTKFile") >>

BinaryDocs ==
    UNION {{BinaryDoc(fa, k, nc, A) :
               fa \in FileAttribs, nc \in {0, 2}, A \in Arrays(k)} :
           k \in DocKinds}

\* an array long enough for two rows
FourNumbers == << <<1>>, <<2>>, <<3>>, <<4>> >>

AsciiDocs ==
    {AsciiDoc(fa, "UInt8", nc, A) :
        fa \in {FileAttrib("1.0", "LittleEndian", "")}, nc \in {0, 1, 2, 3},
        A \in Arrays("UInt8") \cup {FourNumbers}}

AppendedDocs ==
    UNION {{AppendedDoc(fa, k1, nc1, A1, k2, << [i \in 1..calcsize(buffers[k2]) |-> i] >>) :
               fa \in FileAttribs, nc1 \in {0, 2}, A1 \in Arrays(k1) \ {<<>>}} :
           k1 \in DocKinds, k2 \in DocKinds}

\* VTKFile tags that lack version, lack byte_order or name no known byte order
BadFileAttribs ==
    {[type |-> "UnstructuredGrid", byte_order |-> "LittleEndian"],
     [type |-> "UnstructuredGrid"],
     [type |-> "UnstructuredGrid", version |-> "1.0"],
     [type |-> "UnstructuredGrid", version |-> "0.1", byte_order |-> "Middle"]}

\* a document whose VTKFile tag is fa, with one ascii DataArray
BadFileDoc(fa) ==
    << Start("VTKFile", fa),
       Start("DataArray", ArrayAttrib("UInt8", "ascii", 0)),
       Text(AsciiText(<< <<1>> >>)),
       End("DataArray"),
       End("VTKFile") >>

\* format attributes of a DataArray tag that name no known format
BadFormats == {"zip", "Binary"}

\* a document with an appended DataArray and then a DataArray of format f
\* that also has an offset
BadFormatDoc(fa, f) ==
    << Start("VTKFile", fa),
       Start("DataArray", AppendedAttrib("UInt8", 0, 0)),
       End("DataArray"),
       Start("DataArray", [type |-> "UInt8", format |-> f, offset |-> DecText(0)]),
       Text(AsciiText(<< <<1>> >>)),
       End("DataArray"),
       End("VTKFile") >>

\* a document with one appended DataArray of one number at offset, the blob
\* being the number after a header that declares extra bytes more than the
\* number has
OffsetDoc(fa, kind, offset, extra) ==
    LET bo == byteorders[fa.byte_order]
        A == << [i \in 1..calcsize(buffers[kind]) |-> i] >>
        blob == LengthHeader(bo, HeaderCode(fa), Len(RawBytes(bo, A)) + extra)
                   \o RawBytes(bo, A)
    IN << Start("VTKFile", fa),
          Start("DataArray", AppendedAttrib(kind, offset, 0)),
          End("DataArray"),
          Start("AppendedData", [encoding |-> "base64"]),
          Text(b64encode(blob)),
          End("AppendedData"),
          End("VTKFile") >>

\* the length of the blob of OffsetDoc
BlobLength(fa, kind) == calcsize(HeaderCode(fa)) + calcsize(buffers[kind])

\* a document with one appended DataArray and two AppendedData elements, the
\* blob of the first holding the number 1 and that of the second the number 2
TwoBlobsDoc(fa) ==
    LET bo == byteorders[fa.byte_order] IN
    << Start("VTKFile", fa),
       Start("DataArray", AppendedAttrib("UInt8", 0, 0)),
       End("DataArray"),
       Start("AppendedData", [encoding |-> "base64"]),
       Text(b64encode(Block(bo, HeaderCode(fa), << <<1>> >>))),
       End("AppendedData"),
       Start("AppendedData", [encoding |-> "base64"]),
       Text(b64encode(Block(bo, HeaderCode(fa), << <<2>> >>))),
       End("AppendedData"),
       End("VTKFile") >>

\* a document with a VTKFile tag inside the root VTKFile tag, and a binary
\* DataArray written as the root tag says
NestedFileDoc(fa, inner, A) ==
    << Start("VTKFile", fa),
       Start("VTKFile", inner),
       Start("DataArray", ArrayAttrib("Int16", "binary", 0)),
       Text(BinaryText(fa, A)),
       End("DataArray"),
       End("VTKFile"),
       End("VTKFile") >>

\* a document with line breaks between the tags: in Piece before the
\* DataArray and after it
IndentedDoc(fa, A) ==
    << Start("VTKFile", fa),
       Start("Piece", [NumberOfPoints |-> DecText(Len(A))]),
       Text(NL),
       Start("DataArray", ArrayAttrib("UInt8", "ascii", 0)),
       Text(AsciiText(A)),
       End("DataArray"),
       Text(NL),
       End("Piece"),
       End("VTKFile") >>

\* a document whose DataArray has a child element between two texts
ChildDoc(fa, child, A, B) ==
    << Start("VTKFile", fa),
       Start("DataArray", ArrayAttrib("UInt8", "ascii", 0)),
       Text(AsciiText(A)),
       Start("InformationKey", child),
       End("InformationKey"),
       Text(AsciiText(B)),
       End("DataArray"),
       End("VTKFile") >>

\* the attributes of the child: those of an InformationKey, and those of an
\* array
ChildAttribs ==
    {[name |-> "L2_NORM_RANGE", location |-> "vtkDataArray"],
     [type |-> "UInt8", format |-> "ascii"]}

PlainFileAttribs ==
    {FileAttrib("0.1", "LittleEndian", ""), FileAttrib("1.0", "BigEndian", "UInt16")}

BadFileDocs == {BadFileDoc(fa) : fa \in BadFileAttribs}

BadFormatDocs == {BadFormatDoc(fa, f) : fa \in PlainFileAttribs, f \in BadFormats}

OffsetDocs ==
    UNION {{OffsetDoc(fa, k, IF past THEN BlobLength(fa, k) + 1 ELSE 0, extra) :
               fa \in PlainFileAttribs, past \in BOOLEAN,
               extra \in {0, 1, calcsize(buffers[k])}} :
           k \in {"UInt8", "Int16"}}

TwoBlobsDocs == {TwoBlobsDoc(fa) : fa \in PlainFileAttribs}

NestedFileDocs ==
    {NestedFileDoc(fa, inner, A) :
        fa \in PlainFileAttribs, inner \in PlainFileAttribs,
        A \in {<< <<1, 2>> >>}}

IndentedDocs == {IndentedDoc(fa, A) : fa \in PlainFileAttribs, A \in Arrays("UInt8")}

ChildDocs ==
    {ChildDoc(fa, child, A, B) :
        fa \in PlainFileAttribs, child \in ChildAttribs,
        A \in {<< <<1>> >>}, B \in {<< <<2>> >>}}

EventDocs ==
    BinaryDocs \cup AsciiDocs \cup AppendedDocs \cup BadFileDocs
        \cup BadFormatDocs \cup OffsetDocs \cup TwoBlobsDocs \cup NestedFileDocs
        \cup IndentedDocs \cup ChildDocs

(***************************************************************************)
(* State                                                                   *)
(***************************************************************************)
VARIABLES
    doc,                 \* the document being parsed
    pos,                 \* how many of its bytes were fed
    nfeeds,              \* feed calls so far
    incomplete_raw_tag,  \* self.incomplete_raw_tag
    raw_data,            \* self.raw_data
    chunk,               \* the data argument of the last feed call
    sub_input,           \* <<c>>: the last call ran the substitution on c
    fwd,                 \* <<f>>: the last call forwarded f to XMLParser.feed
    out                  \* all bytes forwarded so far, in order

pvars == << doc, pos, nfeeds, incomplete_raw_tag, raw_data, chunk, sub_input,
            fwd, out >>

VARIABLES
    events,                \* the events of the document being decoded
    next_event,            \* the index of the next event to deliver
    delivered,             \* how much of a text event's text was delivered
    native,                \* the byte order of the machine: "<" or ">"
    elems,                 \* the elements created so far: tag, attrib, text,
                           \* how often handle_data_array (nwrites) and the
                           \* resolver (nresolved) assigned the text, and the
                           \* text delivered while the element was the
                           \* innermost open one (own)
    stack,                 \* TreeBuilder's stack of open elements
    elem,                  \* self.elem: the element started last
    array_data,            \* self.array_data
    appended_data_arrays,  \* self.appended_data_arrays
    split_header,          \* self.split_header
    byteorder,             \* self.byteorder
    header_type,           \* self.header_type
    error,                 \* the exception that ended the decode, or "none"
    last                   \* the event handled last: self.elem when it
                           \* returned, the innermost open element and the
                           \* buffer it found, and its text

dvars == << events, next_event, delivered, native, elems, stack, elem,
            array_data, appended_data_arrays, split_header, byteorder,
            header_type, error, last >>

vars == << pvars, dvars >>

\* the text of an element nothing was assigned to
None == [ndim |-> 0, data |-> <<>>]

NoEvent ==
    [ev |-> "none", tag |-> "", elem |-> 0, open |-> 0, text |-> <<>>,
     arg |-> <<>>]

\* VTKTreeBuilder.__init__, before any event
BuilderInit ==
    /\ next_event = 1
    /\ delivered = 0
    /\ elems = <<>>
    /\ stack = <<>>
    /\ elem = 0
    /\ array_data = <<>>
    /\ appended_data_arrays = <<>>
    /\ split_header = "unset"
    /\ byteorder = "unset"
    /\ header_type = "unset"
    /\ error = "none"
    /\ last = NoEvent

\* the parser with nothing fed
ParserInit ==
    /\ pos = 0
    /\ nfeeds = 0
    /\ incomplete_raw_tag = FALSE
    /\ raw_data = <<>>
    /\ chunk = <<>>
    /\ sub_input = <<>>
    /\ fwd = <<>>
    /\ out = <<>>

\* VTKXMLParser.__init__
PatcherInit ==
    /\ doc \in Docs
    /\ ParserInit
    /\ events = <<>>
    /\ native = "<"
    /\ BuilderInit

\* feed without the return of line 33: an incomplete section is forwarded
feed_without_return(data) ==
    LET flag == IF Search(raw_start_pattern, data)
                   /\ ~Search(raw_end_pattern, data)
                THEN TRUE ELSE incomplete_raw_tag
        acc == raw_data \o data
        cur == IF flag THEN acc ELSE data
    IN
    /\ chunk' = data
    /\ incomplete_raw_tag' = (flag /\ ~SubSearch(acc))
    /\ raw_data' = IF flag /\ ~SubSearch(acc) THEN acc
                   ELSE IF flag THEN <<>> ELSE raw_data
    /\ sub_input' = << cur >>
    /\ fwd' = << raw_sub(cur) >>
    /\ out' = out \o raw_sub(cur)

\* VTKXMLParser.feed(data)
feed(data) ==
    LET flag == IF Search(raw_start_pattern, data)
                   /\ ~Search(raw_end_pattern, data)
                THEN TRUE ELSE incomplete_raw_tag
        acc == raw_data \o data
    IN
    /\ chunk' = data
    /\ IF flag /\ ~SubSearch(acc)
       THEN \* line 33: return
            /\ incomplete_raw_tag' = TRUE
            /\ raw_data' = acc
            /\ sub_input' = <<>>
            /\ fwd' = <<>>
            /\ out' = out
       ELSE LET cur == IF flag THEN acc ELSE data IN
            /\ incomplete_raw_tag' = FALSE
            /\ raw_data' = IF flag THEN <<>> ELSE raw_data
            /\ sub_input' = << cur >>
            /\ fwd' = << raw_sub(cur) >>
            /\ out' = out \o raw_sub(cur)

\* the caller reads the document in consecutive non-empty chunks
Feed ==
    /\ nfeeds < MaxChunks
    /\ \E n \in 1..(Len(doc) - pos) :
          /\ feed(SubSeq(doc, pos + 1, pos + n))
          /\ pos' = pos + n
    /\ nfeeds' = nfeeds + 1
    /\ doc' = doc
    /\ UNCHANGED dvars

PatcherNext == Feed

PatcherSpec == PatcherInit /\ [][PatcherNext]_vars

(***************************************************************************)
(* VTKTreeBuilder                                                          *)
(***************************************************************************)
\* most bytes of a text the parser delivers as a first, separate data event
MaxFirstPiece == 2

\* s[:n] and s[n:]
Prefix(s, n) == SubSeq(s, 1, IF n < Len(s) THEN n ELSE Len(s))
Suffix(s, n) == IF n >= Len(s) THEN <<>> ELSE SubSeq(s, n + 1, Len(s))

Raise(name) == [err |-> name, val |-> <<>>]

\* the binary branch with the header value taken for the item count (the
\* division by the item size of lines 110-111 left out)
binary_array_no_division(code) ==
    LET input_data == strip(array_data)
        hsize == Len(b64encode(pack_zero(byteorder, header_type)))
        head == b64decode(Prefix(input_data, hsize))
        len == unpack_from(byteorder, header_type, head.val, 0)
    IN IF head.err # "none" THEN Raise(head.err)
       ELSE IF len.err # "none" THEN Raise(len.err)
       ELSE IF split_header = "True" THEN
           LET data_content == b64decode(Suffix(input_data, hsize)) IN
           IF data_content.err # "none" THEN Raise(data_content.err)
           ELSE fromstring(data_content.val, byteorder, code, len.val)
       ELSE Raise("UnboundLocalError")

\* line 106 with the width of the header for the count of base64 characters
header_size_in_bytes == calcsize(header_type)

\* line 106: the number of base64 characters of one header
header_size == Len(b64encode(pack_zero(byteorder, header_type)))

\* line 107: the bytes that the first header_size characters of the text
\* decode to, and the byte length read from them
header_bytes(input_data) == b64decode(Prefix(input_data, header_size))

data_len(input_data) ==
    unpack_from(byteorder, header_type, header_bytes(input_data).val, 0)

\* lines 104-117: the binary branch of handle_data_array for struct code code
binary_array(code) ==
    LET input_data == strip(array_data)
        head == header_bytes(input_data)
        len == data_len(input_data)
    IN IF head.err # "none" THEN Raise(head.err)
       ELSE IF len.err # "none" THEN Raise(len.err)
       ELSE IF split_header = "True" THEN
           LET data_content == b64decode(Suffix(input_data, header_size))
               data_bytelen == len.val \div calcsize(code)
           IN IF data_content.err # "none" THEN Raise(data_content.err)
              ELSE fromstring(data_content.val, byteorder, code, data_bytelen)
       ELSE \* line 114 reads the local array_data, which nothing has assigned
           Raise("UnboundLocalError")

\* lines 120-122: the number of components and the reshape
shaped(attrib, flat) ==
    LET given == "NumberOfComponents" \in DOMAIN attrib
                    /\ Len(attrib.NumberOfComponents) > 0
        ncomp == IF given THEN int(attrib.NumberOfComponents)
                 ELSE [err |-> "none", val |-> 0]
    IN IF ncomp.err # "none" THEN Raise(ncomp.err)
       ELSE IF ncomp.val > 1 THEN
           LET rows == reshape(flat, ncomp.val) IN
           [err |-> rows.err, val |-> [ndim |-> 2, data |-> rows.val]]
       ELSE [err |-> "none", val |-> [ndim |-> 1, data |-> flat]]

\* lines 102-119: the flat array decoded from the buffer, for an element
\* whose attributes name a known type and a format
flat_array(attrib) ==
    LET code == buffers[attrib.type] IN
    IF attrib.format = "binary" THEN binary_array(code)
    ELSE [err |-> "none", val |-> fromstring_sep(array_data, code, 1)]

\* VTKTreeBuilder.handle_data_array: the error it raises and the elements
\* it leaves
handle_data_array ==
    LET attrib == elems[elem].attrib
        fail(name) == [err |-> name, elems |-> elems]
    IN IF byteorder = "unset" THEN fail("AttributeError")
       ELSE IF "type" \notin DOMAIN attrib THEN fail("KeyError")
       ELSE IF attrib.type \notin DOMAIN buffers THEN fail("KeyError")
       ELSE IF "format" \notin DOMAIN attrib THEN fail("KeyError")
       ELSE LET flat == flat_array(attrib)
            IN IF flat.err # "none" THEN fail(flat.err)
               ELSE LET array == shaped(attrib, flat.val) IN
                    IF array.err # "none" THEN fail(array.err)
                    ELSE [err |-> "none",
                          elems |-> [elems EXCEPT
                                       ![elem].text = array.val,
                                       ![elem].nwrites = @ + 1]]

\* lines 132-136: the loop over the registrations from the i-th on, es being
\* the elements as the loop has left them
RECURSIVE resolve(_, _, _)
resolve(raw, i, es) ==
    IF i > Len(appended_data_arrays) THEN [err |-> "none", elems |-> es]
    ELSE LET reg == appended_data_arrays[i]
             hsize == calcsize(header_type)
             datalen == unpack_from(byteorder, header_type, raw, reg.offset)
         IN IF datalen.err # "none" THEN [err |-> datalen.err, elems |-> es]
            ELSE IF reg.dtype \notin DOMAIN buffers
            THEN [err |-> "KeyError", elems |-> es]
            ELSE LET cbuf == buffers[reg.dtype]
                     data_bytelen == datalen.val \div calcsize(cbuf)
                     \* dtype=cbuf names no byte order: numpy reads the
                     \* items in the byte order of the machine
                     array == fromstring(Suffix(raw, reg.offset + hsize),
                                         native, cbuf, data_bytelen)
                 IN IF array.err # "none" THEN [err |-> array.err, elems |-> es]
                    ELSE resolve(raw, i + 1,
                            [es EXCEPT
                               ![reg.elem].text = [ndim |-> 1, data |-> array.val],
                               ![reg.elem].nresolved = @ + 1])

\* VTKTreeBuilder.handle_appended_data
handle_appended_data ==
    LET raw == b64decode(array_data) IN
    IF raw.err # "none" THEN [err |-> raw.err, elems |-> elems]
    ELSE IF byteorder = "unset" THEN [err |-> "AttributeError", elems |-> elems]
    ELSE resolve(raw.val, 1, elems)

\* lines 60-72: the VTKFile tag
start_VTKFile(attrib) ==
    /\ UNCHANGED appended_data_arrays
    /\ IF "version" \notin DOMAIN attrib
       THEN /\ error' = "ValueError"
            /\ UNCHANGED << split_header, byteorder, header_type >>
       ELSE /\ split_header' = IF attrib.version = "0.1" THEN "True" ELSE "False"
            /\ IF "byte_order" \notin DOMAIN attrib
               THEN \* the handler formats attrib["byte_order"] again
                    /\ error' = "KeyError"
                    /\ UNCHANGED << byteorder, header_type >>
               ELSE IF attrib.byte_order \notin DOMAIN byteorders
               THEN /\ error' = "ValueError"
                    /\ UNCHANGED << byteorder, header_type >>
               ELSE /\ byteorder' = byteorders[attrib.byte_order]
                    /\ header_type' =
                          IF "header_type" \in DOMAIN attrib
                             /\ attrib.header_type \in DOMAIN buffers
                          THEN buffers[attrib.header_type] ELSE "I"
                    /\ error' = "none"

\* the DataArray tag with line 74 testing for an offset attribute where the
\* code tests the format
start_DataArray_by_offset(attrib, e) ==
    /\ UNCHANGED << split_header, byteorder, header_type >>
    /\ appended_data_arrays' =
          IF "offset" \in DOMAIN attrib /\ "type" \in DOMAIN attrib
             /\ int(attrib.offset).err = "none"
          THEN Append(appended_data_arrays,
                      [offset |-> int(attrib.offset).val, dtype |-> attrib.type,
                       elem |-> e])
          ELSE appended_data_arrays
    /\ error' = IF "format" \notin DOMAIN attrib THEN "KeyError"
                ELSE IF attrib.format \notin {"binary", "ascii", "appended"}
                THEN "ValueError" ELSE "none"

\* lines 73-77: the DataArray tag, e being the element just created
start_DataArray(attrib, e) ==
    /\ UNCHANGED << split_header, byteorder, header_type >>
    /\ IF "format" \notin DOMAIN attrib
       THEN error' = "KeyError" /\ UNCHANGED appended_data_arrays
       ELSE IF attrib.format = "appended"
       THEN IF "offset" \notin DOMAIN attrib
            THEN error' = "KeyError" /\ UNCHANGED appended_data_arrays
            ELSE IF int(attrib.offset).err # "none"
            THEN error' = "ValueError" /\ UNCHANGED appended_data_arrays
            ELSE IF "type" \notin DOMAIN attrib
            THEN error' = "KeyError" /\ UNCHANGED appended_data_arrays
            ELSE /\ appended_data_arrays' =
                       Append(appended_data_arrays,
                              [offset |-> int(attrib.offset).val,
                               dtype |-> attrib.type, elem |-> e])
                 /\ error' = "none"
       ELSE IF attrib.format \notin {"binary", "ascii", "appended"}
       THEN error' = "ValueError" /\ UNCHANGED appended_data_arrays
       ELSE error' = "none" /\ UNCHANGED appended_data_arrays

\* the innermost open element: the top of TreeBuilder's stack, 0 when no
\* element is open
Top == IF Len(stack) = 0 THEN 0 ELSE stack[Len(stack)]

\* VTKTreeBuilder.start(tag, attrib)
start(tag, attrib) ==
    LET e == Len(elems) + 1 IN
    /\ elems' = Append(elems, [tag |-> tag, attrib |-> attrib, text |-> None,
                               nwrites |-> 0, nresolved |-> 0, own |-> <<>>])
    /\ stack' = Append(stack, e)
    /\ elem' = e
    /\ array_data' = <<>>
    /\ last' = [ev |-> "start", tag |-> tag, elem |-> e, open |-> Top,
                text |-> array_data, arg |-> <<>>]
    /\ IF tag = "VTKFile" THEN start_VTKFile(attrib)
       ELSE IF tag = "DataArray" THEN start_DataArray(attrib, e)
       ELSE /\ error' = "none"
            /\ UNCHANGED << split_header, byteorder, header_type,
                            appended_data_arrays >>

\* VTKTreeBuilder.data(data)
data(text) ==
    /\ array_data' = IF elems[elem].tag \in {"DataArray", "AppendedData"}
                     THEN array_data \o text ELSE array_data
    /\ last' = [ev |-> "data", tag |-> "", elem |-> elem, open |-> Top,
                text |-> array_data, arg |-> text]
    /\ elems' = IF Top = 0 THEN elems ELSE [elems EXCEPT ![Top].own = @ \o text]
    /\ UNCHANGED << stack, elem, appended_data_arrays, split_header,
                    byteorder, header_type, error >>

\* VTKTreeBuilder.end(tag)
end(tag) ==
    LET res == IF tag = "DataArray" THEN handle_data_array
               ELSE IF tag = "AppendedData" THEN handle_appended_data
               ELSE [err |-> "none", elems |-> elems]
    IN /\ elems' = res.elems
       /\ error' = res.err
       /\ IF res.err = "none"
          THEN /\ array_data' = <<>>
               /\ stack' = SubSeq(stack, 1, Len(stack) - 1)
          ELSE UNCHANGED << array_data, stack >>
       /\ last' = [ev |-> "end", tag |-> tag, elem |-> elem, open |-> Top,
                   text |-> array_data, arg |-> <<>>]
       /\ UNCHANGED << elem, appended_data_arrays, split_header, byteorder,
                       header_type >>

DecoderInit ==
    /\ events \in EventDocs
    /\ native \in {"<", ">"}
    /\ BuilderInit
    /\ doc = <<>>
    /\ ParserInit

\* an event is delivered while the decode has not failed
Pending(kind) ==
    /\ error = "none"
    /\ next_event <= Len(events)
    /\ events[next_event].ev = kind

StartEvent ==
    /\ Pending("start")
    /\ start(events[next_event].tag, events[next_event].attrib)
    /\ next_event' = next_event + 1
    /\ UNCHANGED << events, delivered, native, pvars >>

\* the parser delivers a text whole, or a first piece of it and then the rest
DataEvent ==
    /\ Pending("data")
    /\ LET text == events[next_event].text
           rest == Len(text) - delivered
       IN \E n \in 1..rest :
             /\ n = rest \/ (delivered = 0 /\ n <= MaxFirstPiece)
             /\ data(SubSeq(text, delivered + 1, delivered + n))
             /\ delivered' = IF n = rest THEN 0 ELSE delivered + n
             /\ next_event' = IF n = rest THEN next_event + 1 ELSE next_event
    /\ UNCHANGED << events, native, pvars >>

EndEvent ==
    /\ Pending("end")
    /\ end(events[next_event].tag)
    /\ next_event' = next_event + 1
    /\ UNCHANGED << events, delivered, native, pvars >>

DecoderNext == StartEvent \/ DataEvent \/ EndEvent

DecoderSpec == DecoderInit /\ [][DecoderNext]_vars

(***************************************************************************)
(* The patcher's claims                                                    *)
(***************************************************************************)
\* what one feed call of the whole document d forwards
OneShot(d) ==
    IF Search(raw_start_pattern, d) /\ ~Search(raw_end_pattern, d)
       /\ ~SubSearch(d)
    THEN <<>> ELSE raw_sub(d)

\* s holds the start marker and, later, the end marker
CompleteSpan(s) ==
    \E i \in 1..Len(s) :
        /\ LitAt(raw_start_pattern, s, i)
        /\ \E e \in (i + Len(raw_start_pattern))..Len(s) :
              LitAt(raw_end_pattern, s, e)

\* C1: once the whole document is fed, in whatever chunks, the bytes
\* forwarded downstream are those one feed call of the whole document
\* forwards.
C1_ChunkingEquivalence == pos = Len(doc) => out = OneShot(doc)

\* C2: no forwarded chunk holds a raw payload byte (the byte 1, which only
\* the payload of a raw section holds).
C2_NoRawByteForwarded ==
    \A n \in 1..Len(fwd) : \A x \in 1..Len(fwd[n]) : fwd[n][x] # 1

\* C3: a feed call whose chunk holds the start marker and not the end marker
\* sets the flag and forwards nothing; a feed call made while the flag is set
\* appends its chunk to the buffer and forwards nothing, as long as the buffer
\* holds no complete start-to-end span.
C3_SuspendWhileIncomplete ==
    [][ /\ (Search(raw_start_pattern, chunk')
              /\ ~Search(raw_end_pattern, chunk'))
           => (incomplete_raw_tag' /\ fwd' = <<>> /\ out' = out)
        /\ (incomplete_raw_tag /\ ~CompleteSpan(raw_data \o chunk'))
           => /\ incomplete_raw_tag'
              /\ raw_data' = raw_data \o chunk'
              /\ fwd' = <<>>
              /\ out' = out ]_vars

\* C3's case: the flag is set, a later chunk was appended to the buffer and
\* the buffer holds no complete span yet
C3_Witness ==
    /\ incomplete_raw_tag
    /\ nfeeds >= 2
    /\ ~CompleteSpan(raw_data)
    /\ fwd = <<>>
    /\ Len(raw_data) > Len(chunk)
    /\ SubSeq(raw_data, Len(raw_data) - Len(chunk) + 1, Len(raw_data)) = chunk

\* C4: while the flag is set, the feed call that completes the start-to-end
\* span in the buffer clears the flag, empties the buffer and forwards one
\* chunk built from the whole buffer, whatever the payload bytes.
C4_CompletionForwards ==
    [][ (incomplete_raw_tag /\ ~CompleteSpan(raw_data)
           /\ CompleteSpan(raw_data \o chunk'))
        => /\ ~incomplete_raw_tag'
           /\ raw_data' = <<>>
           /\ sub_input' = << raw_data \o chunk' >>
           /\ Len(fwd') = 1 ]_vars

\* the positions right after a start tag, and those of an end marker
TagEnds(c) == {i \in 1..(Len(c) + 1) : LitAt(raw_start_tag, c, i - Len(raw_start_tag))}
EndStarts(c) == {m \in 1..Len(c) : LitAt(raw_end_pattern, c, m)}

\* i..j-1 white space, the underscore at j, j+1..k-1 free of line feeds,
\* k..m-1 white space, the end marker at m
Section(c, i, j, k, m) ==
    /\ \A x \in i..(j - 1) : IsSpace(c[x])
    /\ c[j] = 95
    /\ \A x \in (j + 1)..(k - 1) : c[x] # 10
    /\ \A x \in k..(m - 1) : IsSpace(c[x])

Sections(c) ==
    {q \in TagEnds(c) \X (1..Len(c)) \X (1..(Len(c) + 1)) \X EndStarts(c) :
        /\ q[1] <= q[2] /\ q[2] < q[3] /\ q[3] <= q[4]
        /\ Section(c, q[1], q[2], q[3], q[4])}

RECURSIVE Concat(_)
Concat(rows) ==
    IF Len(rows) = 0 THEN <<>> ELSE rows[1] \o Concat(SubSeq(rows, 2, Len(rows)))

Flat(payload) == IF payload.ndim = 2 THEN Concat(payload.data) ELSE payload.data

\* the number of components an element declares, 0 when it declares none
Components(e) ==
    IF "NumberOfComponents" \in DOMAIN elems[e].attrib
    THEN int(elems[e].attrib.NumberOfComponents).val ELSE 0

\* the payload of element e is the array A, in the shape e declares
Carries(e, A) ==
    /\ Flat(elems[e].text) = A
    /\ elems[e].text.ndim = IF Components(e) > 1 THEN 2 ELSE 1

\* the event handled last was the close of a binary DataArray that is the
\* decoder's current element
ClosedBinaryArray ==
    /\ last.ev = "end"
    /\ last.tag = "DataArray"
    /\ elems[last.elem].tag = "DataArray"
    /\ elems[last.elem].attrib.format = "binary"

\* C6: in a document whose version is not "0.1", the close event of a binary
\* DataArray whose text is base64(lengthHeader(byteLength(A)) ++ rawBytes(A))
\* raises no error and leaves A as the payload.
C6_CombinedRoundTrip ==
    (ClosedBinaryArray /\ split_header = "False")
    => \A A \in Arrays(elems[last.elem].attrib.type) :
          (/\ strip(last.text) = CombinedText(byteorder, header_type, A)
           /\ (Components(last.elem) > 1 => Len(A) % Components(last.elem) = 0))
          => (error = "none" /\ Carries(last.elem, A))

\* C7: in a document whose version is "0.1", the close event of a binary
\* DataArray whose text is base64(lengthHeader(byteLength(A))) followed by
\* base64(rawBytes(A)) raises no error and leaves A as the payload (in rows
\* when the element declares components that divide the length of A).
C7_SplitRoundTrip ==
    (ClosedBinaryArray /\ split_header = "True")
    => \A A \in Arrays(elems[last.elem].attrib.type) :
          (/\ strip(last.text) = SplitText(byteorder, header_type, A)
           /\ (Components(last.elem) > 1 => Len(A) % Components(last.elem) = 0))
          => (error = "none" /\ Carries(last.elem, A))

\* C7's case: a big-endian split-header document whose array of two Float32
\* numbers was decoded
C7_Witness ==
    /\ ClosedBinaryArray
    /\ split_header = "True"
    /\ byteorder = ">"
    /\ error = "none"
    /\ elems[last.elem].attrib.type = "Float32"
    /\ elems[last.elem].text = [ndim |-> 1, data |-> << <<1, 2, 3, 4>>, <<200, 0, 0, 0>> >>]
    /\ strip(last.text) =
          SplitText(">", header_type, << <<1, 2, 3, 4>>, <<200, 0, 0, 0>> >>)

\* the event handled last was the close of the AppendedData element, two
\* DataArray elements being registered
ClosedAppendedData ==
    /\ last.ev = "end"
    /\ last.tag = "AppendedData"
    /\ Len(appended_data_arrays) = 2

\* C8: when the blob holds the arrays A1 and A2 back to back, each after its
\* length header, and the two registrations hold the offsets of the two
\* headers, the close event of AppendedData leaves A1 in the first element
\* and A2 in the second.
C8_OffsetAddressing ==
    ClosedAppendedData
    => LET r1 == appended_data_arrays[1]
           r2 == appended_data_arrays[2]
       IN \A A1 \in Arrays(r1.dtype), A2 \in Arrays(r2.dtype) :
             (/\ b64decode(last.text).val =
                    Block(byteorder, header_type, A1)
                       \o Block(byteorder, header_type, A2)
              /\ r1.offset = 0
              /\ r2.offset = Len(Block(byteorder, header_type, A1)))
             => /\ error = "none"
                /\ Flat(elems[r1.elem].text) = A1
                /\ Flat(elems[r2.elem].text) = A2

\* what the resolver is to read for registration r from the blob raw: the
\* items counted by the header at the offset, in byte order bo
ItemsAt(raw, r, bo) ==
    LET count == unpack_from(byteorder, header_type, raw, r.offset).val
                    \div calcsize(buffers[r.dtype])
    IN fromstring(Suffix(raw, r.offset + calcsize(header_type)), bo,
                  buffers[r.dtype], count).val

\* C9: the resolver reads the items of every registered array in the byte
\* order of the document, the one it reads the length header with.
C9_DocumentByteOrder ==
    (ClosedAppendedData /\ error = "none")
    => \A n \in 1..Len(appended_data_arrays) :
          LET r == appended_data_arrays[n] IN
          Flat(elems[r.elem].text)
             = ItemsAt(b64decode(last.text).val, r, byteorder)

\* C10: the resolver shapes the array of an appended DataArray that declares
\* C > 1 components into rows of C items, in row-major order, and fails when
\* C does not divide the item count.
C10_AppendedReshape ==
    ClosedAppendedData
    => \A n \in 1..Len(appended_data_arrays) :
          LET r == appended_data_arrays[n]
              items == ItemsAt(b64decode(last.text).val, r, native)
              C == Components(r.elem)
          IN C > 1 =>
                IF Len(items) % C = 0
                THEN error = "none"
                     => elems[r.elem].text = [ndim |-> 2, data |-> reshape(items, C).val]
                ELSE error # "none"

\* the next event is the close of a DataArray, and self.elem has the
\* attributes and the decoder the parameters that the decoding needs
ClosingDataArray ==
    /\ Pending("end")
    /\ events[next_event].tag = "DataArray"
    /\ byteorder # "unset"
    /\ "type" \in DOMAIN elems[elem].attrib
    /\ elems[elem].attrib.type \in DOMAIN buffers
    /\ "format" \in DOMAIN elems[elem].attrib

\* C11: when the DataArray decode procedure has decoded a flat array of
\* length L for an element that declares C components: if C > 1 divides L
\* the payload has L/C rows of C items and item i of the flat array is at row
\* i div C, column i mod C; if C > 1 does not divide L the close event fails
\* (numpy's ValueError) and assigns no payload; if C is absent or C <= 1 the
\* payload is the flat array.
C11_ReshapeInvariant ==
    [][ (ClosingDataArray /\ flat_array(elems[elem].attrib).err = "none")
        => LET flat == flat_array(elems[elem].attrib).val
               L == Len(flat)
               C == Components(elem)
               payload == elems'[elem].text
           IN IF C > 1 /\ L % C = 0
              THEN /\ error' = "none"
                   /\ payload.ndim = 2
                   /\ Len(payload.data) = L \div C
                   /\ \A r \in 1..(L \div C) : Len(payload.data[r]) = C
                   /\ \A i \in 0..(L - 1) :
                         payload.data[(i \div C) + 1][(i % C) + 1] = flat[i + 1]
              ELSE IF C > 1
              THEN error' = "ValueError" /\ elems' = elems
              ELSE error' = "none" /\ payload = [ndim |-> 1, data |-> flat] ]_vars

\* C11's case: the close of a DataArray that declares two components and
\* whose text holds four numbers left two rows of two items
C11_Witness ==
    /\ last.ev = "end"
    /\ last.tag = "DataArray"
    /\ error = "none"
    /\ Components(last.elem) = 2
    /\ elems[last.elem].text =
          [ndim |-> 2, data |-> << << <<1>>, <<2>> >>, << <<3>>, <<4>> >> >>]

\* element e is a DataArray whose format is appended
IsAppendedArray(e) ==
    /\ elems[e].tag = "DataArray"
    /\ "format" \in DOMAIN elems[e].attrib
    /\ elems[e].attrib.format = "appended"

\* C12: the DataArray decode procedure never assigns the payload of a
\* DataArray whose format is appended, and over a decode the payload of
\* every element is assigned at most once, by the decode procedure or by the
\* resolver.
C12_WriteOnce ==
    \A e \in 1..Len(elems) :
        /\ IsAppendedArray(e) => elems[e].nwrites = 0
        /\ elems[e].nwrites + elems[e].nresolved <= 1

\* the event handled last was the start of a VTKFile tag
StartedVTKFile == last.ev = "start" /\ last.tag = "VTKFile"

\* C13: the start event of a VTKFile tag without version raises the error
\* of line 64 (a ValueError); the start event of one with version whose
\* byte_order is absent, or is neither LittleEndian nor BigEndian, raises an
\* error of that same kind; the error is raised by the start event itself.
C13_ConfigurationError ==
    StartedVTKFile
    => LET attrib == elems[last.elem].attrib IN
       /\ "version" \notin DOMAIN attrib => error = "ValueError"
       /\ ("version" \in DOMAIN attrib
             /\ ("byte_order" \notin DOMAIN attrib
                   \/ attrib.byte_order \notin {"LittleEndian", "BigEndian"}))
          => error = "ValueError"

\* the next event is the start of a DataArray tag whose format attribute is
\* none of ascii, binary, appended
StartingBadFormat ==
    /\ Pending("start")
    /\ events[next_event].tag = "DataArray"
    /\ "format" \in DOMAIN events[next_event].attrib
    /\ events[next_event].attrib.format \notin {"ascii", "binary", "appended"}

\* C14: the start event of a DataArray tag whose format is none of ascii,
\* binary, appended raises the error of line 77 (a ValueError), queues no
\* registration and writes no element's payload: the elements that were are
\* unchanged and the new element has no payload.
C14_FormatError ==
    [][ StartingBadFormat
        => /\ error' = "ValueError"
           /\ appended_data_arrays' = appended_data_arrays
           /\ \A e \in 1..Len(elems) : elems'[e] = elems[e]
           /\ elems'[Len(elems) + 1].text = None ]_vars

\* C14's case: the start of a DataArray of format zip has failed, one
\* registration of an earlier element being queued
C14_Witness ==
    /\ last.ev = "start"
    /\ last.tag = "DataArray"
    /\ elems[last.elem].attrib.format = "zip"
    /\ error = "ValueError"
    /\ Len(appended_data_arrays) = 1
    /\ appended_data_arrays[1].elem # last.elem

\* the read of registration r runs past the end of the blob raw: the header
\* does not fit at the offset, or it declares more bytes than follow it
ReadsPastEnd(raw, r) ==
    LET w == calcsize(header_type)
        declared == unpack_from(byteorder, header_type, raw, r.offset)
    IN \/ declared.err # "none"
       \/ declared.val > Len(raw) - (r.offset + w)

\* C15: at AppendedData close, a registration whose read would run past the
\* end of the decoded blob makes the close fail (struct.error or numpy's
\* ValueError), and the resolver assigns no array to its owner element.
C15_OffsetError ==
    (last.ev = "end" /\ last.tag = "AppendedData" /\ byteorder # "unset"
        /\ b64decode(last.text).err = "none")
    => \A n \in 1..Len(appended_data_arrays) :
          LET r == appended_data_arrays[n] IN
          ReadsPastEnd(b64decode(last.text).val, r)
          => /\ error \in {"struct.error", "ValueError"}
             /\ elems[r.elem].nresolved = 0

\* the next event is the start of a DataArray tag whose format is appended
\* and that has an offset and a type
StartingAppendedArray ==
    /\ Pending("start")
    /\ events[next_event].tag = "DataArray"
    /\ {"format", "offset", "type"} \subseteq DOMAIN events[next_event].attrib
    /\ events[next_event].attrib.format = "appended"

\* C16: the start event of a DataArray whose format is appended appends one
\* registration (offset, kind, the element just created) to the tail of the
\* queue and no other event changes the queue; a registration is resolved
\* at an AppendedData close event only, and no more than once over the
\* decode.
C16_RegistrationLifecycle ==
    [][ /\ appended_data_arrays' =
              IF StartingAppendedArray
              THEN Append(appended_data_arrays,
                          [offset |-> int(events[next_event].attrib.offset).val,
                           dtype |-> events[next_event].attrib.type,
                           elem |-> Len(elems) + 1])
              ELSE appended_data_arrays
        /\ (\E e \in 1..Len(elems) : elems'[e].nresolved # elems[e].nresolved)
           => (Pending("end") /\ events[next_event].tag = "AppendedData")
        /\ \A e \in 1..Len(elems') : elems'[e].nresolved <= 1 ]_vars

\* the three document-wide decode parameters are set
ParametersSet ==
    split_header # "unset" /\ byteorder # "unset" /\ header_type # "unset"

\* C17: once the start event of the root VTKFile tag has set the header
\* layout, the byte order and the header type, no later event changes any of
\* the three.
C17_ParametersFixed ==
    [][ ParametersSet
        => /\ split_header' = split_header
           /\ byteorder' = byteorder
           /\ header_type' = header_type ]_vars

\* C18: a text event adds its text to the buffer if and only if the
\* innermost open element is a DataArray or an AppendedData; otherwise the
\* buffer is as the event found it.
C18_TextAccumulation ==
    last.ev = "data"
    => IF last.open # 0 /\ elems[last.open].tag \in {"DataArray", "AppendedData"}
       THEN array_data = last.text \o last.arg
       ELSE array_data = last.text

\* C20: the DataArray decode run at the close event of a DataArray works on
\* the element being closed: self.elem is that element, the buffer holds
\* the text delivered for it, and when no error is raised it is that
\* element's payload that was assigned.
C20_DecodesClosedElement ==
    (last.ev = "end" /\ last.tag = "DataArray")
    => /\ last.elem = last.open
       /\ last.text = elems[last.open].own
       /\ error = "none" => elems[last.open].nwrites = 1

\* ceil(a / b)
CeilDiv(a, b) == (a + b - 1) \div b

\* C19: at the close of a binary DataArray, for the header width w of the
\* document, the count of base64 characters that line 106 computes is
\* 4 * ceil(w / 3); and when the text is that of an array A in the split or
\* in the combined layout, its first header_size characters decode to at
\* least w bytes, the first w of which are the length header of A, so line
\* 107 reads the byte length of A in both layouts.
C19_HeaderSizeAgreement ==
    ClosedBinaryArray
    => LET w == calcsize(header_type)
           input == strip(last.text)
       IN /\ header_size = 4 * CeilDiv(w, 3)
          /\ \A A \in Arrays(elems[last.elem].attrib.type) :
                input \in {SplitText(byteorder, header_type, A),
                           CombinedText(byteorder, header_type, A)}
                => /\ header_bytes(input).err = "none"
                   /\ Len(header_bytes(input).val) >= w
                   /\ SubSeq(header_bytes(input).val, 1, w)
                         = LengthHeader(byteorder, header_type,
                                        Len(RawBytes(byteorder, A)))
                   /\ data_len(input).err = "none"
                   /\ data_len(input).val = Len(RawBytes(byteorder, A))

\* C19's case: the close of a binary DataArray of a big-endian document in
\* the combined layout with a one-byte header, the text being that of an
\* array of two Int16 numbers
C19_Witness ==
    /\ ClosedBinaryArray
    /\ split_header = "False"
    /\ byteorder = ">"
    /\ header_type = "B"
    /\ elems[last.elem].attrib.type = "Int16"
    /\ strip(last.text) = CombinedText(">", "B", << <<1, 2>>, <<200, 0>> >>)
    /\ data_len(strip(last.text)).val = 4

====
